---- MODULE Spec2Model ----
(***************************************************************************)
(* A model of the schema-aware query-generation pipeline of nl2sql:        *)
(* QueryProcessor (query_processor.py), the entry point                    *)
(* ImprovedChatInterface.process_query (chat_interface.py) and             *)
(* VectorStore.find_relevant_tables (vector_store.py).                     *)
(*                                                                         *)
(* Text is modelled as a sequence of one-character strings, so that the    *)
(* string operations of the code (strip, split, lower, upper, re.sub,      *)
(* float) are computed character by character as Python computes them.     *)
(* The alphabet is ASCII; on ASCII the regex classes \w and [a-zA-Z0-9_]   *)
(* coincide.                                                               *)
(***************************************************************************)
EXTENDS Integers, Sequences, FiniteSets, TLC

----------------------------------------------------------------------------
(* Characters and the str methods the code uses *)

LowerLetters == <<"a","b","c","d","e","f","g","h","i","j","k","l","m",
                  "n","o","p","q","r","s","t","u","v","w","x","y","z">>
UpperLetters == <<"A","B","C","D","E","F","G","H","I","J","K","L","M",
                  "N","O","P","Q","R","S","T","U","V","W","X","Y","Z">>
Digits == {"0","1","2","3","4","5","6","7","8","9"}
Whitespace == {" ", "\t", "\n", "\r"}
\* the grave accent (U+0060) of a markdown fence, which a TLA+ string cannot hold
Backtick == "GRAVE"

Range(f) == {f[i] : i \in DOMAIN f}

ToLowerMap ==
    "A" :> "a" @@ "B" :> "b" @@ "C" :> "c" @@ "D" :> "d" @@ "E" :> "e" @@ "F" :> "f"
    @@ "G" :> "g" @@ "H" :> "h" @@ "I" :> "i" @@ "J" :> "j" @@ "K" :> "k" @@ "L" :> "l"
    @@ "M" :> "m" @@ "N" :> "n" @@ "O" :> "o" @@ "P" :> "p" @@ "Q" :> "q" @@ "R" :> "r"
    @@ "S" :> "s" @@ "T" :> "t" @@ "U" :> "u" @@ "V" :> "v" @@ "W" :> "w" @@ "X" :> "x"
    @@ "Y" :> "y" @@ "Z" :> "z"
ToUpperMap ==
    "a" :> "A" @@ "b" :> "B" @@ "c" :> "C" @@ "d" :> "D" @@ "e" :> "E" @@ "f" :> "F"
    @@ "g" :> "G" @@ "h" :> "H" @@ "i" :> "I" @@ "j" :> "J" @@ "k" :> "K" @@ "l" :> "L"
    @@ "m" :> "M" @@ "n" :> "N" @@ "o" :> "O" @@ "p" :> "P" @@ "q" :> "Q" @@ "r" :> "R"
    @@ "s" :> "S" @@ "t" :> "T" @@ "u" :> "U" @@ "v" :> "V" @@ "w" :> "W" @@ "x" :> "X"
    @@ "y" :> "Y" @@ "z" :> "Z"

\* str.lower() and str.upper()
lower(s) == [i \in 1..Len(s) |-> IF s[i] \in DOMAIN ToLowerMap THEN ToLowerMap[s[i]] ELSE s[i]]
upper(s) == [i \in 1..Len(s) |-> IF s[i] \in DOMAIN ToUpperMap THEN ToUpperMap[s[i]] ELSE s[i]]

\* the character at 1-based position i, or "" outside the text
CharAt(s, i) == IF i \in 1..Len(s) THEN s[i] ELSE ""

\* the first position >= p whose character is not in set cs (Len(s)+1 if none)
RECURSIVE SkipWhile(_, _, _)
SkipWhile(s, p, cs) ==
    IF p <= Len(s) /\ s[p] \in cs THEN SkipWhile(s, p + 1, cs) ELSE p

\* the last position <= p whose character is not in set cs (0 if none)
RECURSIVE SkipBack(_, _, _)
SkipBack(s, p, cs) ==
    IF p >= 1 /\ s[p] \in cs THEN SkipBack(s, p - 1, cs) ELSE p

\* str.strip(): leading and trailing whitespace removed
strip(s) ==
    LET a == SkipWhile(s, 1, Whitespace)
        b == SkipBack(s, Len(s), Whitespace)
    IN  IF a > b THEN <<>> ELSE SubSeq(s, a, b)

\* does text pat occur in s starting at position p
StartsAt(s, p, pat) ==
    /\ p >= 1
    /\ p + Len(pat) - 1 <= Len(s)
    /\ SubSeq(s, p, p + Len(pat) - 1) = pat

\* str.split(sep) for a one-character separator: always at least one piece
RECURSIVE split(_, _)
split(s, sep) ==
    LET hits == {i \in 1..Len(s) : s[i] = sep}
    IN  IF hits = {} THEN <<s>>
        ELSE LET i == CHOOSE j \in hits : \A k \in hits : j <= k
             IN  <<SubSeq(s, 1, i - 1)>> \o split(SubSeq(s, i + 1, Len(s)), sep)

\* str.replace(old, new) for a non-empty old: leftmost, non-overlapping
RECURSIVE replace(_, _, _)
replace(s, old, new) ==
    IF s = <<>> THEN <<>>
    ELSE IF StartsAt(s, 1, old)
         THEN new \o replace(SubSeq(s, Len(old) + 1, Len(s)), old, new)
         ELSE <<s[1]>> \o replace(Tail(s), old, new)

----------------------------------------------------------------------------
(* QueryProcessor: identifier quoting *)

pg_keywords ==
    { <<"a", "l", "l">>,
      <<"a", "n", "a", "l", "y", "s", "e">>,
      <<"a", "n", "a", "l", "y", "z", "e">>,
      <<"a", "n", "d">>,
      <<"a", "n", "y">>,
      <<"a", "r", "r", "a", "y">>,
      <<"a", "s">>,
      <<"a", "s", "c">>,
      <<"a", "s", "y", "m", "m", "e", "t", "r", "i", "c">>,
      <<"a", "u", "t", "h", "o", "r", "i", "z", "a", "t", "i", "o", "n">>,
      <<"b", "i", "n", "a", "r", "y">>,
      <<"b", "o", "t", "h">>,
      <<"c", "a", "s", "e">>,
      <<"c", "a", "s", "t">>,
      <<"c", "h", "e", "c", "k">>,
      <<"c", "o", "l", "l", "a", "t", "e">>,
      <<"c", "o", "l", "u", "m", "n">>,
      <<"c", "o", "n", "s", "t", "r", "a", "i", "n", "t">>,
      <<"c", "r", "e", "a", "t", "e">>,
      <<"c", "r", "o", "s", "s">>,
      <<"c", "u", "r", "r", "e", "n", "t", "_", "d", "a", "t", "e">>,
      <<"c", "u", "r", "r", "e", "n", "t", "_", "r", "o", "l", "e">>,
      <<"c", "u", "r", "r", "e", "n", "t", "_", "t", "i", "m", "e">>,
      <<"c", "u", "r", "r", "e", "n", "t", "_", "t", "i", "m", "e", "s", "t", "a", "m", "p">>,
      <<"c", "u", "r", "r", "e", "n", "t", "_", "u", "s", "e", "r">>,
      <<"d", "e", "f", "a", "u", "l", "t">>,
      <<"d", "e", "f", "e", "r", "r", "a", "b", "l", "e">>,
      <<"d", "e", "s", "c">>,
      <<"d", "i", "s", "t", "i", "n", "c", "t">>,
      <<"d", "o">>,
      <<"e", "l", "s", "e">>,
      <<"e", "n", "d">>,
      <<"e", "x", "c", "e", "p", "t">>,
      <<"f", "a", "l", "s", "e">>,
      <<"f", "o", "r">>,
      <<"f", "o", "r", "e", "i", "g", "n">>,
      <<"f", "r", "e", "e", "z", "e">>,
      <<"f", "r", "o", "m">>,
      <<"f", "u", "l", "l">>,
      <<"g", "r", "a", "n", "t">>,
      <<"g", "r", "o", "u", "p">>,
      <<"h", "a", "v", "i", "n", "g">>,
      <<"i", "l", "i", "k", "e">>,
      <<"i", "n">>,
      <<"i", "n", "i", "t", "i", "a", "l", "l", "y">>,
      <<"i", "n", "n", "e", "r">>,
      <<"i", "n", "t", "e", "r", "s", "e", "c", "t">>,
      <<"i", "n", "t", "o">>,
      <<"i", "s">>,
      <<"i", "s", "n", "u", "l", "l">>,
      <<"j", "o", "i", "n">>,
      <<"l", "e", "a", "d", "i", "n", "g">>,
      <<"l", "e", "f", "t">>,
      <<"l", "i", "k", "e">>,
      <<"l", "i", "m", "i", "t">>,
      <<"l", "o", "c", "a", "l", "t", "i", "m", "e">>,
      <<"l", "o", "c", "a", "l", "t", "i", "m", "e", "s", "t", "a", "m", "p">>,
      <<"n", "a", "t", "u", "r", "a", "l">>,
      <<"n", "o", "t">>,
      <<"n", "o", "t", "n", "u", "l", "l">>,
      <<"n", "u", "l", "l">>,
      <<"o", "f", "f", "s", "e", "t">>,
      <<"o", "n">>,
      <<"o", "n", "l", "y">>,
      <<"o", "r">>,
      <<"o", "r", "d", "e", "r">>,
      <<"o", "u", "t", "e", "r">>,
      <<"o", "v", "e", "r", "l", "a", "p", "s">>,
      <<"p", "l", "a", "c", "i", "n", "g">>,
      <<"p", "r", "i", "m", "a", "r", "y">>,
      <<"r", "e", "f", "e", "r", "e", "n", "c", "e", "s">>,
      <<"r", "i", "g", "h", "t">>,
      <<"s", "e", "l", "e", "c", "t">>,
      <<"s", "e", "s", "s", "i", "o", "n", "_", "u", "s", "e", "r">>,
      <<"s", "i", "m", "i", "l", "a", "r">>,
      <<"s", "o", "m", "e">>,
      <<"s", "y", "m", "m", "e", "t", "r", "i", "c">>,
      <<"t", "a", "b", "l", "e">>,
      <<"t", "h", "e", "n">>,
      <<"t", "o">>,
      <<"t", "r", "a", "i", "l", "i", "n", "g">>,
      <<"t", "r", "u", "e">>,
      <<"u", "n", "i", "o", "n">>,
      <<"u", "n", "i", "q", "u", "e">>,
      <<"u", "s", "e", "r">>,
      <<"u", "s", "i", "n", "g">>,
      <<"v", "e", "r", "b", "o", "s", "e">>,
      <<"w", "h", "e", "n">>,
      <<"w", "h", "e", "r", "e">> }

\* _needs_quoting(identifier)
_needs_quoting_MutNoKeywords(identifier) ==
    \/ upper(identifier) = identifier
    \/ lower(identifier) # identifier
    \/ " " \in Range(identifier)
    \/ \E c \in {".", "-"} : c \in Range(identifier)

_needs_quoting(identifier) ==
    \/ upper(identifier) = identifier
    \/ lower(identifier) # identifier
    \/ " " \in Range(identifier)
    \/ \E c \in {".", "-"} : c \in Range(identifier)
    \/ lower(identifier) \in pg_keywords

\* _quote_identifier(identifier)
_quote_identifier(identifier) ==
    IF _needs_quoting(identifier) THEN <<"\"">> \o identifier \o <<"\"">>
    ELSE identifier

----------------------------------------------------------------------------
(* QueryProcessor._process_sql_query: the regular-expression rewrite *)

\* [a-zA-Z0-9_] and [a-zA-Z_]
WordChars == DOMAIN ToUpperMap \cup DOMAIN ToLowerMap \cup Digits \cup {"_"}
IdentStartChars == DOMAIN ToUpperMap \cup DOMAIN ToLowerMap \cup {"_"}

\* the alternatives of group 1 of table_pattern, in the pattern's order
PatternKeywords == << <<"F", "R", "O", "M">>,
                     <<"J", "O", "I", "N">>,
                     <<"U", "P", "D", "A", "T", "E">>,
                     <<"I", "N", "T", "O">>,
                     <<"T", "A", "B", "L", "E">> >>

\* \b at the gap before position p
WordBoundary(s, p) == (CharAt(s, p - 1) \in WordChars) # (CharAt(s, p) \in WordChars)

\* table_case_map = {name.lower(): name for name in table_names}: a later
\* name overwrites an earlier one with the same lower-case key
RECURSIVE table_case_map(_)
table_case_map(table_names) ==
    IF table_names = <<>> THEN <<>>
    ELSE LET n    == Len(table_names)
             rest == table_case_map(SubSeq(table_names, 1, n - 1))
             key  == lower(table_names[n])
         IN  IF \E i \in DOMAIN rest : rest[i][1] = key
             THEN [i \in DOMAIN rest |->
                     IF rest[i][1] = key THEN <<key, table_names[n]>> ELSE rest[i]]
             ELSE Append(rest, <<key, table_names[n]>>)

\* dict.get(key, default) on the (key, value) pairs of the dict
DictGet(d, key, default) ==
    IF \E i \in DOMAIN d : d[i][1] = key
    THEN d[CHOOSE i \in DOMAIN d : d[i][1] = key][2]
    ELSE default

\* one attempt of table_pattern at position p, flags=re.IGNORECASE.  The
\* greedy \s+ and [a-zA-Z0-9_]* have one way to succeed: all the whitespace,
\* then the whole run of word characters (a shorter run ends inside a word,
\* where \b fails).
table_pattern(s, p) ==
    LET kws   == {k \in DOMAIN PatternKeywords :
                     /\ p + Len(PatternKeywords[k]) - 1 <= Len(s)
                     /\ upper(SubSeq(s, p, p + Len(PatternKeywords[k]) - 1)) = PatternKeywords[k]}
        k     == CHOOSE j \in kws : \A i \in kws : j <= i
        ws    == p + Len(PatternKeywords[k])
        id    == SkipWhile(s, ws, Whitespace)
        idEnd == SkipWhile(s, id, WordChars)
    IN  IF /\ WordBoundary(s, p)
           /\ kws # {}
           /\ id > ws
           /\ CharAt(s, id) \in IdentStartChars
           /\ WordBoundary(s, idEnd)
        THEN [matched |-> TRUE, group1 |-> SubSeq(s, p, ws - 1),
              group2 |-> SubSeq(s, id, idEnd - 1), end |-> idEnd]
        ELSE [matched |-> FALSE, group1 |-> <<>>, group2 |-> <<>>, end |-> p]

\* replace_table_name(match)
replace_table_name_MutNoCaseMap(match, map) ==
    match.group1 \o <<" ">> \o _quote_identifier(match.group2)

replace_table_name_MutDropsKeyword(match, map) ==
    _quote_identifier(DictGet(map, lower(match.group2), match.group2))

replace_table_name(match, map) ==
    LET keyword       == match.group1
        table_name    == match.group2
        original_case == DictGet(map, lower(table_name), table_name)
        quoted_name   == _quote_identifier(original_case)
    IN  keyword \o <<" ">> \o quoted_name

\* re.sub(table_pattern, replace_table_name, sql_query): leftmost matches,
\* left to right, the search resuming where the previous match ended
RECURSIVE re_sub_tables(_, _, _)
re_sub_tables(s, p, map) ==
    IF p > Len(s) THEN <<>>
    ELSE LET m == table_pattern(s, p)
         IN  IF m.matched
             THEN replace_table_name(m, map) \o re_sub_tables(s, m.end, map)
             ELSE <<s[p]>> \o re_sub_tables(s, p + 1, map)

\* _process_sql_query(sql_query, table_names)
_process_sql_query(sql_query, table_names) ==
    re_sub_tables(sql_query, 1, table_case_map(table_names))

----------------------------------------------------------------------------
(* QueryProcessor.validate_tables: the part after the completion call *)

\* [table for table in relevant_tables if table['table_name'] in validated_tables]
RECURSIVE FilterTables_MutIgnoreCase(_, _)
FilterTables_MutIgnoreCase(relevant_tables, validated) ==
    IF relevant_tables = <<>> THEN <<>>
    ELSE LET table == Head(relevant_tables)
             rest  == FilterTables_MutIgnoreCase(Tail(relevant_tables), validated)
         IN  IF \E j \in DOMAIN validated : lower(validated[j]) = lower(table.table_name)
             THEN <<table>> \o rest
             ELSE rest

RECURSIVE FilterTables(_, _)
FilterTables(relevant_tables, validated) ==
    IF relevant_tables = <<>> THEN <<>>
    ELSE LET table == Head(relevant_tables)
             rest  == FilterTables(Tail(relevant_tables), validated)
         IN  IF \E j \in DOMAIN validated : validated[j] = table.table_name
             THEN <<table>> \o rest
             ELSE rest

\* validate_tables(relevant_tables), given the content of the completion
validate_tables(relevant_tables, content) ==
    LET validated_tables == split(strip(content), ",")
    IN  FilterTables(relevant_tables, validated_tables)

----------------------------------------------------------------------------
(* QueryProcessor.process_schema_chunk: the part after the completion call *)

\* re.sub(r',(\s*W1)', r'\1', s) and re.sub(r',(\s*W1\s+W2)', r'\1', s)
\* (w2 = <<>> for the one-word form); case-sensitive.  The match drops the
\* comma and keeps the rest; the search resumes after the match.
TrailingCommaEnd(s, p, w1, w2) ==
    LET a == SkipWhile(s, p + 1, Whitespace)
        b == a + Len(w1)
        c == SkipWhile(s, b, Whitespace)
    IN  IF s[p] = "," /\ StartsAt(s, a, w1)
        THEN IF w2 = <<>> THEN b
             ELSE IF c > b /\ StartsAt(s, c, w2) THEN c + Len(w2) ELSE 0
        ELSE 0

RECURSIVE re_sub_comma(_, _, _, _)
re_sub_comma(s, p, w1, w2) ==
    IF p > Len(s) THEN <<>>
    ELSE LET e == TrailingCommaEnd(s, p, w1, w2)
         IN  IF e > 0
             THEN SubSeq(s, p + 1, e - 1) \o re_sub_comma(s, e, w1, w2)
             ELSE <<s[p]>> \o re_sub_comma(s, p + 1, w1, w2)

table_names_of(tables) == [j \in 1..Len(tables) |-> tables[j].table_name]

\* process_schema_chunk(tables, query), given the content of the completion
process_schema_chunk(tables, content) ==
    LET s0 == strip(content)
        s1 == strip(replace(replace(s0, <<Backtick, Backtick, Backtick, "s", "q", "l">>, <<>>), <<Backtick, Backtick, Backtick>>, <<>>))
        s2 == re_sub_comma(s1, 1, <<"F", "R", "O", "M">>, <<>>)
        s3 == re_sub_comma(s2, 1, <<"W", "H", "E", "R", "E">>, <<>>)
        s4 == re_sub_comma(s3, 1, <<"G", "R", "O", "U", "P">>, <<"B", "Y">>)
        s5 == re_sub_comma(s4, 1, <<"O", "R", "D", "E", "R">>, <<"B", "Y">>)
    IN  _process_sql_query(s5, table_names_of(tables))

----------------------------------------------------------------------------
(* QueryProcessor.evaluate_query_confidence: the part after the call *)

\* A float is NaN or a number; numbers are kept in hundredths, which is exact
\* for decimal literals of at most two fraction digits.
Float(v) == [nan |-> FALSE, v |-> v]
NaN == [nan |-> TRUE, v |-> 0]

\* a > b on floats: every comparison with NaN is false
FloatGT(a, b) == ~a.nan /\ ~b.nan /\ a.v > b.v

DigitValue ==
    "0" :> 0 @@ "1" :> 1 @@ "2" :> 2 @@ "3" :> 3 @@ "4" :> 4
    @@ "5" :> 5 @@ "6" :> 6 @@ "7" :> 7 @@ "8" :> 8 @@ "9" :> 9

RECURSIVE DecimalValue(_)
DecimalValue(ds) ==
    IF ds = <<>> THEN 0
    ELSE 10 * DecimalValue(SubSeq(ds, 1, Len(ds) - 1)) + DigitValue[ds[Len(ds)]]

\* float(text): [ok |-> FALSE] stands for ValueError.  Covers signed decimal
\* literals (digits with an optional point) and "nan"; the response texts of
\* the model stay within this grammar or outside Python's float grammar
\* altogether (no exponents, underscores or infinities).
float(text) ==
    LET s        == strip(text)
        signed   == s # <<>> /\ s[1] \in {"+", "-"}
        body     == IF signed THEN Tail(s) ELSE s
        negative == signed /\ s[1] = "-"
        parts    == split(body, ".")
        int      == parts[1]
        frac     == IF Len(parts) = 2 THEN parts[2] ELSE <<>>
        frac2    == SubSeq(frac \o <<"0", "0">>, 1, 2)
        mag      == 100 * DecimalValue(int) + DecimalValue(frac2)
    IN  IF lower(body) = <<"n", "a", "n">> THEN [ok |-> TRUE, value |-> NaN]
        ELSE IF /\ Len(parts) <= 2
                /\ Range(int) \cup Range(frac) \subseteq Digits
                /\ Len(int) + Len(frac) >= 1
                /\ Len(frac) <= 2
             THEN [ok |-> TRUE, value |-> Float(IF negative THEN 0 - mag ELSE mag)]
             ELSE [ok |-> FALSE, value |-> NaN]

\* evaluate_query_confidence(sql_query, original_query, tables), given the
\* content of the completion: try float(...) except ValueError: 0.0
evaluate_query_confidence_MutRaise(content) ==
    LET r == float(strip(content))
    IN  IF r.ok THEN [raised |-> FALSE, value |-> r.value]
        ELSE [raised |-> TRUE, value |-> NaN]

evaluate_query_confidence(content) ==
    LET r == float(strip(content))
    IN  IF r.ok THEN [raised |-> FALSE, value |-> r.value]
        ELSE [raised |-> FALSE, value |-> Float(0)]

----------------------------------------------------------------------------
(* Program constants and the bounds of the model *)

\* QueryProcessor.__init__
MAX_TOKENS == 4000
TOKENS_PER_TABLE == 800
\* VectorStore.find_relevant_tables(query, top_k=3)
top_k_MutDouble == 2 * 3

top_k == 3

\* the longest candidate list handed to generate_sql
MaxTables == 12

Max(a, b) == IF a >= b THEN a ELSE b
Min(a, b) == IF a <= b THEN a ELSE b

\* tables_per_chunk = max(1, self.MAX_TOKENS // self.TOKENS_PER_TABLE)
tables_per_chunk_MutFour == Max(1, MAX_TOKENS \div TOKENS_PER_TABLE) - 1

tables_per_chunk == Max(1, MAX_TOKENS \div TOKENS_PER_TABLE)

\* Python's None, and the marker of a call that raised
None == <<"<None>">>
Raised == <<"<exception>">>

\* Python truthiness of an Optional[str]
Truthy(s) == s # None /\ s # <<>>

----------------------------------------------------------------------------
(* The inputs of the pipeline: what the collaborators may answer *)

\* the j-th table of the similarity ranking; odd ones are stored with an
\* upper-case letter (and so need quoting), even ones all lower-case
TableName(j) == <<IF j % 2 = 1 THEN "T" ELSE "t", LowerLetters[j]>>
Table(j) == [table_name |-> TableName(j), similarity_score |-> 100 - j]
Tables(n) == [j \in 1..n |-> Table(j)]

\* ",".join(names)
RECURSIVE JoinNames(_)
JoinNames(names) ==
    IF names = <<>> THEN <<>>
    ELSE IF Len(names) = 1 THEN names[1]
    ELSE names[1] \o <<",">> \o JoinNames(Tail(names))

\* contents of the relevance completion: the names of the first k
\* candidates joined by commas, for k = 0 (the empty content), 1, all but one
\* and all, or free text
RelevanceContents(relevant_tables) ==
    LET n == Len(relevant_tables)
    IN  {JoinNames(table_names_of(SubSeq(relevant_tables, 1, k))) :
            k \in {0, 1, n - 1, n} \cap 0..n}
        \cup {<<"n", "o", "n", "e">>}

\* contents of the generation completion
GenerationContents ==
    { <<>>,
      <<"1", ",", " ", "F", "R", "O", "M", " ", "t", "a">>,
      <<Backtick, Backtick, Backtick, "s", "q", "l", "\n", "F", "R", "O", "M", " ", "t", "g", "\n", Backtick, Backtick, Backtick>> }

\* contents of the scoring completion
ScoringContents ==
    { <<"0", ".", "3">>,
      <<"0", ".", "9">>,
      <<"8", "5">>,
      <<"-", "1">>,
      <<"h", "i", "g", "h">>,
      <<"n", "a", "n">> }

----------------------------------------------------------------------------
(* State *)

VARIABLES
    pc,                 \* where the current request stands
    entry,              \* "process_query" or "generate_sql": the method called
    relevant_tables,    \* generate_sql's argument
    validated_tables,   \* generate_sql: validate_tables' result
    i,                  \* generate_sql: the loop variable of range(0, len, tables_per_chunk)
    proposed_query,     \* generate_sql: the current chunk's SQL
    best_query,         \* generate_sql
    highest_confidence, \* generate_sql
    sql_query,          \* the value generate_sql returned to its caller
    calls,              \* the completion-service calls made, in order
    executed,           \* the SQL texts handed to the execution engine
    logs,               \* logger.error records
    outcome,            \* what the called method returned or raised
    display,            \* what main printed for the request
    sql_in,             \* _process_sql_query: argument sql_query
    table_names_in,     \* _process_sql_query: argument table_names
    sql_out,            \* _process_sql_query: the results of successive applications
    relevant_in,        \* validate_tables: argument relevant_tables
    content_in,         \* validate_tables: the completion's content
    validated_out,      \* validate_tables: <<result>> once applied
    identifier_in,      \* _needs_quoting and _quote_identifier: argument identifier
    quote_out           \* <<[needs, quoted]>>: their results, once applied

pipelineVars == <<pc, entry, relevant_tables, validated_tables, i, proposed_query,
                  best_query, highest_confidence, sql_query, calls, executed, logs,
                  outcome, display>>
normalizeVars == <<sql_in, table_names_in, sql_out>>
validateVars == <<relevant_in, content_in, validated_out>>
quoteVars == <<identifier_in, quote_out>>
vars == <<pipelineVars, normalizeVars, validateVars, quoteVars>>

Pending == [status |-> "pending", result |-> "None", sql_query |-> None]
NoDisplay == [error |-> FALSE, sql_query |-> None]

PipelineInit ==
    /\ pc = "idle"
    /\ entry = "none"
    /\ relevant_tables = <<>>
    /\ validated_tables = <<>>
    /\ i = 0
    /\ proposed_query = None
    /\ best_query = None
    /\ highest_confidence = Float(0)
    /\ sql_query = None
    /\ calls = <<>>
    /\ executed = <<>>
    /\ logs = <<>>
    /\ outcome = Pending
    /\ display = NoDisplay

NormalizeIdle == sql_in = <<>> /\ table_names_in = <<>> /\ sql_out = <<>>
ValidateIdle == relevant_in = <<>> /\ content_in = <<>> /\ validated_out = <<>>

QuoteIdle == identifier_in = <<>> /\ quote_out = <<>>

Init == PipelineInit /\ NormalizeIdle /\ ValidateIdle /\ QuoteIdle

\* one completion-service call: the tables named in its prompt, the content
\* of its answer (Raised if it failed) and what the calling method made of it
Call(kind, tables, content, returned) ==
    [kind |-> kind, tables |-> table_names_of(tables), content |-> content,
     returned |-> returned]

\* process_query's "except Exception": log and return (None, None)
Caught(record) ==
    /\ logs' = Append(logs, record)
    /\ outcome' = [status |-> "returned", result |-> "None", sql_query |-> None]
    /\ pc' = "done"

----------------------------------------------------------------------------
(* ImprovedChatInterface.process_query and QueryProcessor.generate_sql *)

\* process_query: find_relevant_tables(query) with the default top_k
ProcessQuery ==
    /\ pc = "idle"
    /\ \E n \in 0..Min(top_k, MaxTables) :
        /\ entry' = "process_query"
        /\ relevant_tables' = Tables(n)
        /\ IF n = 0
           THEN Caught("ImprovedChatInterface: No relevant tables found for the query")
           ELSE /\ pc' = "validate"
                /\ UNCHANGED <<logs, outcome>>
    /\ UNCHANGED <<validated_tables, i, proposed_query, best_query, highest_confidence,
                   sql_query, calls, executed, display>>
    /\ UNCHANGED <<normalizeVars, validateVars, quoteVars>>

\* process_query: the embedding or the search raises
SearchFails ==
    /\ pc = "idle"
    /\ entry' = "process_query"
    /\ Caught("ImprovedChatInterface: search failed")
    /\ UNCHANGED <<relevant_tables, validated_tables, i, proposed_query, best_query,
                   highest_confidence, sql_query, calls, executed, display>>
    /\ UNCHANGED <<normalizeVars, validateVars, quoteVars>>

\* generate_sql is a public method: called directly, with a candidate list of
\* any length up to MaxTables
GenerateSql ==
    /\ pc = "idle"
    /\ \E n \in 0..MaxTables :
        /\ entry' = "generate_sql"
        /\ relevant_tables' = Tables(n)
    /\ pc' = "validate"
    /\ UNCHANGED <<validated_tables, i, proposed_query, best_query, highest_confidence,
                   sql_query, calls, executed, logs, outcome, display>>
    /\ UNCHANGED <<normalizeVars, validateVars, quoteVars>>

\* generate_sql: validate_tables, then the choice between one chunk and many
ValidateTables ==
    /\ pc = "validate"
    /\ \E content \in RelevanceContents(relevant_tables) :
        LET validated == validate_tables(relevant_tables, content)
        IN  /\ validated_tables' = validated
            /\ calls' = Append(calls, Call("relevance", relevant_tables, content,
                                      table_names_of(validated)))
            /\ pc' = IF Len(validated) <= tables_per_chunk THEN "single" ELSE "generate"
    /\ i' = 0
    /\ best_query' = None
    /\ highest_confidence' = Float(0)
    /\ UNCHANGED <<entry, relevant_tables, proposed_query, sql_query, executed, logs,
                   outcome, display>>
    /\ UNCHANGED <<normalizeVars, validateVars, quoteVars>>

\* generate_sql: return self.process_schema_chunk(validated_tables, query)
SingleChunk ==
    /\ pc = "single"
    /\ \E content \in GenerationContents :
        LET sql == process_schema_chunk(validated_tables, content)
        IN  /\ calls' = Append(calls, Call("generation", validated_tables, content, sql))
            /\ sql_query' = sql
    /\ pc' = "returned"
    /\ UNCHANGED <<entry, relevant_tables, validated_tables, i, proposed_query, best_query,
                   highest_confidence, executed, logs, outcome, display>>
    /\ UNCHANGED <<normalizeVars, validateVars, quoteVars>>

\* chunk = validated_tables[i:i + tables_per_chunk]
Chunk_MutOverlap(tables, from) ==
    SubSeq(tables, Max(1, from), Min(from + tables_per_chunk, Len(tables)))

Chunk(tables, from) ==
    SubSeq(tables, from + 1, Min(from + tables_per_chunk, Len(tables)))

\* generate_sql, loop body: proposed_query = self.process_schema_chunk(chunk, query)
GenerateChunk ==
    /\ pc = "generate"
    /\ \E content \in GenerationContents :
        LET chunk == Chunk(validated_tables, i)
            sql   == process_schema_chunk(chunk, content)
        IN  /\ calls' = Append(calls, Call("generation", chunk, content, sql))
            /\ proposed_query' = sql
    /\ pc' = "score"
    /\ UNCHANGED <<entry, relevant_tables, validated_tables, i, best_query,
                   highest_confidence, sql_query, executed, logs, outcome, display>>
    /\ UNCHANGED <<normalizeVars, validateVars, quoteVars>>

\* if confidence > highest_confidence
Better_MutNotStrict(confidence, highest) ==
    ~confidence.nan /\ ~highest.nan /\ confidence.v >= highest.v

Better(confidence, highest) == FloatGT(confidence, highest)

\* generate_sql, loop body: the confidence call, the comparison, and the
\* loop's next step (another chunk, or return best_query)
ScoreChunk ==
    /\ pc = "score"
    /\ \E content \in ScoringContents :
        LET chunk == Chunk(validated_tables, i)
            r     == evaluate_query_confidence(content)
            took  == ~r.raised /\ Better(r.value, highest_confidence)
            best  == IF took THEN proposed_query ELSE best_query
            more  == i + tables_per_chunk < Len(validated_tables)
        IN  /\ calls' = Append(calls, Call("scoring", chunk, content,
                                      IF r.raised THEN Raised ELSE r.value))
            /\ IF r.raised
               THEN /\ UNCHANGED <<best_query, highest_confidence, i, sql_query>>
                    /\ IF entry = "process_query"
                       THEN Caught("ImprovedChatInterface: Error processing query")
                       ELSE /\ outcome' = [status |-> "raised", result |-> "None",
                                           sql_query |-> None]
                            /\ pc' = "done"
                            /\ UNCHANGED logs
               ELSE /\ best_query' = best
                    /\ highest_confidence' = IF took THEN r.value ELSE highest_confidence
                    /\ i' = i + tables_per_chunk
                    /\ sql_query' = IF more THEN sql_query ELSE best
                    /\ pc' = IF more THEN "generate" ELSE "returned"
                    /\ UNCHANGED <<logs, outcome>>
    /\ UNCHANGED <<entry, relevant_tables, validated_tables, proposed_query, executed,
                   display>>
    /\ UNCHANGED <<normalizeVars, validateVars, quoteVars>>

\* a completion call raises: nothing in generate_sql catches it
CompletionFails_MutRetry ==
    /\ pc \in {"validate", "single", "generate", "score"}
    /\ calls' = Append(calls,
          Call(CASE pc = "validate" -> "relevance"
                 [] pc = "score" -> "scoring"
                 [] OTHER -> "generation",
               CASE pc = "validate" -> relevant_tables
                 [] pc = "single" -> validated_tables
                 [] OTHER -> Chunk(validated_tables, i),
               Raised, Raised))
    /\ IF entry = "process_query"
       THEN /\ logs' = Append(logs, "ImprovedChatInterface: Error processing query")
            /\ UNCHANGED <<outcome, pc>>
       ELSE UNCHANGED <<outcome, pc, logs>>
    /\ UNCHANGED <<entry, relevant_tables, validated_tables, i, proposed_query, best_query,
                   highest_confidence, sql_query, executed, display>>
    /\ UNCHANGED <<normalizeVars, validateVars, quoteVars>>

CompletionFails ==
    /\ pc \in {"validate", "single", "generate", "score"}
    /\ calls' = Append(calls,
          Call(CASE pc = "validate" -> "relevance"
                 [] pc = "score" -> "scoring"
                 [] OTHER -> "generation",
               CASE pc = "validate" -> relevant_tables
                 [] pc = "single" -> validated_tables
                 [] OTHER -> Chunk(validated_tables, i),
               Raised, Raised))
    /\ IF entry = "process_query"
       THEN Caught("ImprovedChatInterface: Error processing query")
       ELSE /\ outcome' = [status |-> "raised", result |-> "None", sql_query |-> None]
            /\ pc' = "done"
            /\ UNCHANGED logs
    /\ UNCHANGED <<entry, relevant_tables, validated_tables, i, proposed_query, best_query,
                   highest_confidence, sql_query, executed, display>>
    /\ UNCHANGED <<normalizeVars, validateVars, quoteVars>>

\* generate_sql has returned: to an outside caller, or to process_query,
\* which raises on a falsy value and goes on to execute_query otherwise
Returned ==
    /\ pc = "returned"
    /\ IF entry = "generate_sql"
       THEN /\ outcome' = [status |-> "returned", result |-> "None", sql_query |-> sql_query]
            /\ pc' = "done"
            /\ UNCHANGED logs
       ELSE IF ~Truthy(sql_query)
            THEN Caught("ImprovedChatInterface: Failed to generate SQL query")
            ELSE /\ pc' = "execute"
                 /\ UNCHANGED <<logs, outcome>>
    /\ UNCHANGED <<entry, relevant_tables, validated_tables, i, proposed_query, best_query,
                   highest_confidence, sql_query, calls, executed, display>>
    /\ UNCHANGED <<normalizeVars, validateVars, quoteVars>>

\* process_query: return self.query_processor.execute_query(sql_query)
ExecuteQuery ==
    /\ pc = "execute"
    /\ executed' = Append(executed, sql_query)
    /\ \E accepted \in BOOLEAN :
        IF accepted
        THEN /\ outcome' = [status |-> "returned", result |-> "DataFrame",
                            sql_query |-> sql_query]
             /\ UNCHANGED logs
        ELSE /\ logs' = logs \o <<"QueryProcessor: Error executing query",
                                  "ImprovedChatInterface: Error processing query">>
             /\ outcome' = [status |-> "returned", result |-> "None", sql_query |-> None]
    /\ pc' = "done"
    /\ UNCHANGED <<entry, relevant_tables, validated_tables, i, proposed_query, best_query,
                   highest_confidence, sql_query, calls, display>>
    /\ UNCHANGED <<normalizeVars, validateVars, quoteVars>>

\* main: what is printed for (result, sql_query) = chat.process_query(...)
MainPrints ==
    /\ pc = "done"
    /\ entry = "process_query"
    /\ display' = [error |-> outcome.result # "DataFrame",
                   sql_query |-> IF Truthy(outcome.sql_query) THEN outcome.sql_query ELSE None]
    /\ pc' = "shown"
    /\ UNCHANGED <<entry, relevant_tables, validated_tables, i, proposed_query, best_query,
                   highest_confidence, sql_query, calls, executed, logs, outcome>>
    /\ UNCHANGED <<normalizeVars, validateVars, quoteVars>>

\* the next request starts from scratch: no state is kept between requests
NextRequest ==
    /\ \/ pc = "shown"
       \/ pc = "done" /\ entry = "generate_sql"
    /\ pc' = "idle"
    /\ entry' = "none"
    /\ relevant_tables' = <<>>
    /\ validated_tables' = <<>>
    /\ i' = 0
    /\ proposed_query' = None
    /\ best_query' = None
    /\ highest_confidence' = Float(0)
    /\ sql_query' = None
    /\ calls' = <<>>
    /\ executed' = <<>>
    /\ logs' = <<>>
    /\ outcome' = Pending
    /\ display' = NoDisplay
    /\ UNCHANGED <<normalizeVars, validateVars, quoteVars>>

Next ==
    \/ ProcessQuery
    \/ SearchFails
    \/ GenerateSql
    \/ ValidateTables
    \/ SingleChunk
    \/ GenerateChunk
    \/ ScoreChunk
    \/ CompletionFails
    \/ Returned
    \/ ExecuteQuery
    \/ MainPrints
    \/ NextRequest

Spec == Init /\ [][Next]_vars

----------------------------------------------------------------------------
(* _process_sql_query on its own: every text of up to MaxTokens tokens *)

\* the longest SQL text, in tokens
MaxTokens == 3

\* keywords in both cases and with different whitespace, a keyword that is
\* not a reserved word (update), identifiers in both cases, a digit, a dot, a quote
SqlTokens ==
    { <<"F", "R", "O", "M", " ">>,
      <<"f", "r", "o", "m", "\n">>,
      <<"u", "p", "d", "a", "t", "e", " ">>,
      <<"x">>,
      <<"X">>,
      <<"1">>,
      <<".">>,
      <<"\"">>,
      <<"\n">> }

RECURSIVE TokenTexts(_)
TokenTexts(n) ==
    IF n = 0 THEN {<<>>}
    ELSE LET shorter == TokenTexts(n - 1)
         IN  shorter \cup {t \o s : t \in SqlTokens, s \in shorter}

\* table_names arguments: none known, stored in either case, two names that
\* differ only in case, a stored name that is a keyword
KnownTableLists ==
    { <<>>,
      <<<<"X">>>>,
      <<<<"x">>>>,
      <<<<"X">>, <<"x">>>>,
      <<<<"U", "p", "d", "a", "t", "e">>, <<"X">>>>,
      <<<<"F", "r", "o", "m">>>> }

InitNormalize ==
    /\ PipelineInit
    /\ ValidateIdle
    /\ QuoteIdle
    /\ sql_in \in TokenTexts(MaxTokens)
    /\ table_names_in \in KnownTableLists
    /\ sql_out = <<>>

\* _process_sql_query applied to the text, then to its own result
NormalizeApply ==
    /\ Len(sql_out) < 2
    /\ sql_out' = Append(sql_out,
          _process_sql_query(IF sql_out = <<>> THEN sql_in ELSE sql_out[Len(sql_out)],
                             table_names_in))
    /\ UNCHANGED <<sql_in, table_names_in>>
    /\ UNCHANGED <<pipelineVars, validateVars, quoteVars>>

NextNormalize == NormalizeApply

SpecNormalize == InitNormalize /\ [][NextNormalize]_vars

----------------------------------------------------------------------------
(* validate_tables on its own: every candidate list and content *)

\* the longest content of the relevance completion, in characters
MaxContentLen == 4
\* the longest candidate list
MaxCandidates == 2

ContentChars == {"a", "A", ",", " "}
CandidateNames == { <<"a">>, <<"A">>, <<"A", "a">> }

Texts(chars, n) == UNION {[1..k -> chars] : k \in 0..n}

\* candidate lists as find_relevant_tables builds them: one record per table,
\* scores descending
CandidateLists ==
    {[j \in 1..Len(names) |-> [table_name |-> names[j], similarity_score |-> 100 - j]] :
        names \in Texts(CandidateNames, MaxCandidates)}

InitValidate ==
    /\ PipelineInit
    /\ NormalizeIdle
    /\ QuoteIdle
    /\ relevant_in \in CandidateLists
    /\ content_in \in Texts(ContentChars, MaxContentLen)
    /\ validated_out = <<>>

ValidateApply ==
    /\ validated_out = <<>>
    /\ validated_out' = <<validate_tables(relevant_in, content_in)>>
    /\ UNCHANGED <<relevant_in, content_in>>
    /\ UNCHANGED <<pipelineVars, normalizeVars, quoteVars>>

NextValidate == ValidateApply

SpecValidate == InitValidate /\ [][NextValidate]_vars

----------------------------------------------------------------------------
(* _needs_quoting and _quote_identifier on their own: every identifier *)

\* the longest identifier, in characters
MaxIdentifierLen == 3

\* letters in both cases (a and s spell the reserved word as), an underscore,
\* a digit, and the three characters that force quoting
IdentifierChars == {"a", "s", "A", "_", "1", " ", ".", "-"}

InitQuote ==
    /\ PipelineInit
    /\ NormalizeIdle
    /\ ValidateIdle
    /\ identifier_in \in Texts(IdentifierChars, MaxIdentifierLen)
    /\ quote_out = <<>>

QuoteApply ==
    /\ quote_out = <<>>
    /\ quote_out' = <<[needs  |-> _needs_quoting(identifier_in),
                       quoted |-> _quote_identifier(identifier_in)]>>
    /\ UNCHANGED identifier_in
    /\ UNCHANGED <<pipelineVars, normalizeVars, validateVars>>

NextQuote == QuoteApply

SpecQuote == InitQuote /\ [][NextQuote]_vars

----------------------------------------------------------------------------
(* Properties of generate_sql and process_query, under Spec *)

CallsOf(kind) == SelectSeq(calls, LAMBDA c : c.kind = kind)

\* generate_sql has returned normally from the loop over several chunks
ManyChunksReturned == pc = "returned" /\ Len(validated_tables) > 5

\* C1: with more than 5 validated tables, generate_sql returns the SQL of the
\* lowest-index chunk whose confidence equals the greatest confidence of all
\* chunks, provided that confidence exceeds 0; it returns None when no
\* chunk's confidence exceeds 0.  (A NaN confidence compares false with
\* everything and so is neither greatest nor above 0.)
C1_ReturnsEarliestBest ==
    ManyChunksReturned =>
        LET gens    == CallsOf("generation")
            scores  == CallsOf("scoring")
            conf(j) == scores[j].returned
            leaders == {j \in DOMAIN scores :
                          /\ ~conf(j).nan
                          /\ conf(j).v > 0
                          /\ \A m \in DOMAIN scores : ~conf(m).nan => conf(m).v <= conf(j).v}
        IN  /\ Len(gens) = Len(scores)
            /\ IF leaders = {} THEN sql_query = None
               ELSE sql_query = gens[CHOOSE j \in leaders : \A m \in leaders : j <= m].returned

\* confidences 0.3, 0.9, 0.9 with different SQL for the second and the third
\* chunk: the second chunk's SQL is returned
C1_Witness ==
    /\ ManyChunksReturned
    /\ Len(CallsOf("scoring")) = 3
    /\ [j \in 1..3 |-> CallsOf("scoring")[j].returned] = <<Float(30), Float(90), Float(90)>>
    /\ CallsOf("generation")[2].returned # CallsOf("generation")[3].returned
    /\ sql_query = CallsOf("generation")[2].returned

\* C2: with at most 5 validated tables there is one generation call, for all
\* the validated tables in their order; its SQL is what generate_sql returns,
\* and no confidence call is made for the question.
C2_SingleChunkUnscored ==
    (pc \notin {"idle", "validate"} /\ Len(validated_tables) <= 5) =>
        /\ CallsOf("scoring") = <<>>
        /\ Len(CallsOf("generation")) <= 1
        /\ pc = "returned" =>
              /\ Len(calls) = 2
              /\ calls[1].kind = "relevance"
              /\ calls[2].kind = "generation"
              /\ calls[2].tables = table_names_of(validated_tables)
              /\ sql_query = calls[2].returned

C2_Witness ==
    /\ pc = "returned"
    /\ Len(validated_tables) = 5
    /\ Truthy(sql_query)
    /\ calls[2].tables = table_names_of(validated_tables)

RECURSIVE Concat(_)
Concat(seqs) == IF seqs = <<>> THEN <<>> ELSE Head(seqs) \o Concat(Tail(seqs))

\* C3: with more than 5 validated tables the chunks are contiguous slices of
\* the validated list: concatenated they give the list back, all but the last
\* hold 5 tables, the last holds 1 to 5; 12 tables give sizes 5, 5, 2.
C3_ContiguousChunks ==
    ManyChunksReturned =>
        LET gens   == CallsOf("generation")
            scores == CallsOf("scoring")
            chunks == [j \in DOMAIN gens |-> gens[j].tables]
        IN  /\ Concat(chunks) = table_names_of(validated_tables)
            /\ \A j \in DOMAIN chunks : j < Len(chunks) => Len(chunks[j]) = 5
            /\ Len(chunks[Len(chunks)]) \in 1..5
            /\ [j \in DOMAIN scores |-> scores[j].tables] = chunks
            /\ Len(validated_tables) = 12 =>
                  [j \in DOMAIN chunks |-> Len(chunks[j])] = <<5, 5, 2>>

C3_Witness ==
    /\ ManyChunksReturned
    /\ Len(validated_tables) = 12
    /\ Len(CallsOf("generation")) = 3
    /\ Len(CallsOf("generation")[3].tables) = 2

\* validate_tables has returned the empty list for the current request
NothingValidated ==
    /\ calls # <<>>
    /\ calls[1].kind = "relevance"
    /\ calls[1].returned = <<>>

\* C4: when validate_tables yields no table, no generation request is made,
\* nothing is executed, and the request ends in a failure.
C4_NoRelevantTablesIsFatal ==
    NothingValidated =>
        /\ CallsOf("generation") = <<>>
        /\ executed = <<>>
        /\ pc \in {"done", "shown"} =>
              \/ outcome.status = "raised"
              \/ entry = "process_query" /\ outcome.result = "None"

\* C5: when the engine rejects the query, the failure is logged and the
\* attempted SQL comes back to process_query's caller with the failure.
C5_AttemptedSqlReturned ==
    (entry = "process_query" /\ pc \in {"done", "shown"}
        /\ executed # <<>> /\ outcome.result = "None") =>
        /\ "QueryProcessor: Error executing query" \in Range(logs)
        /\ outcome.sql_query = executed[1]
        /\ pc = "shown" => display.error /\ display.sql_query = executed[1]

\* C10: a confidence content that is no float makes
\* evaluate_query_confidence return 0.0 without raising; generate_sql keeps
\* its best candidate and goes on to the next chunk, or returns after the last.
C10_ScoreParseFailureAbsorbed ==
    [][(/\ pc = "score"
        /\ Len(calls') = Len(calls) + 1
        /\ calls'[Len(calls')].content # Raised
        /\ ~float(calls'[Len(calls')].content).ok)
       => (/\ calls'[Len(calls')].returned = Float(0)
           /\ outcome' = outcome
           /\ logs' = logs
           /\ best_query' = best_query
           /\ highest_confidence' = highest_confidence
           /\ IF i + 5 < Len(validated_tables)
              THEN pc' = "generate" /\ i' = i + 5
              ELSE pc' = "returned" /\ sql_query' = best_query)]_vars

\* the first chunk's score was no float, the second chunk was still generated
\* and scored, and its SQL was returned
C10_Witness ==
    /\ ManyChunksReturned
    /\ Len(CallsOf("scoring")) = 2
    /\ ~float(CallsOf("scoring")[1].content).ok
    /\ CallsOf("scoring")[1].returned = Float(0)
    /\ CallsOf("scoring")[2].returned = Float(90)
    /\ sql_query = CallsOf("generation")[2].returned
    /\ sql_query # CallsOf("generation")[1].returned

----------------------------------------------------------------------------
(* Properties of validate_tables, under SpecValidate *)

\* name is one of the comma-separated items of the content, as written
\* (only the content as a whole is stripped)
NamedVerbatim(name, content) ==
    LET c == strip(content)
    IN  /\ "," \notin Range(name)
        /\ \E a \in 1..Len(c) + 1 :
              /\ a = 1 \/ c[a - 1] = ","
              /\ StartsAt(c, a, name)
              /\ a + Len(name) = Len(c) + 1 \/ c[a + Len(name)] = ","

\* the elements of seq at the positions in keep, in the order of seq
Subsequence(seq, keep) ==
    [j \in 1..Cardinality(keep) |->
        seq[CHOOSE m \in keep : Cardinality({x \in keep : x < m}) = j - 1]]

\* C6: validate_tables returns the candidates, unaltered and in the order
\* of the candidate list, whose table_name is one of the returned names in
\* exactly that spelling, and no other candidate.
C6_FilterKeepsCandidateOrder ==
    validated_out # <<>> =>
        validated_out[1] =
            Subsequence(relevant_in,
                        {j \in DOMAIN relevant_in :
                            NamedVerbatim(relevant_in[j].table_name, content_in)})

\* the content names the candidates in the opposite order and one more name
\* in another case: the result keeps the candidates' order, without that one
C6_Witness ==
    /\ validated_out # <<>>
    /\ content_in = <<"A", ",", "a">>
    /\ table_names_of(relevant_in) = <<<<"a">>, <<"A">>>>
    /\ validated_out[1] = relevant_in

\* C7: every returned name is trimmed of surrounding whitespace before the
\* candidates are filtered, so a candidate named with whitespace around its
\* name in the content is retained.
C7_NamesAreTrimmed ==
    validated_out # <<>> =>
        \A j \in DOMAIN relevant_in :
            (\E item \in Range(split(content_in, ",")) :
                strip(item) = relevant_in[j].table_name)
            => relevant_in[j] \in Range(validated_out[1])

----------------------------------------------------------------------------
(* Properties of _process_sql_query, under SpecNormalize *)

\* the text cut into maximal runs of word characters, maximal runs of
\* whitespace, and single other characters
RECURSIVE Tokenize(_)
Tokenize(s) ==
    IF s = <<>> THEN <<>>
    ELSE LET e == IF s[1] \in WordChars THEN SkipWhile(s, 1, WordChars)
                  ELSE IF s[1] \in Whitespace THEN SkipWhile(s, 1, Whitespace)
                  ELSE 2
         IN  <<SubSeq(s, 1, e - 1)>> \o Tokenize(SubSeq(s, e, Len(s)))

IsKeywordToken(t) ==
    upper(t) \in { <<"F", "R", "O", "M">>, <<"J", "O", "I", "N">>, <<"U", "P", "D", "A", "T", "E">>, <<"I", "N", "T", "O">>, <<"T", "A", "B", "L", "E">> }
IsSpaceToken(t) == t[1] \in Whitespace
IsIdentifierToken(t) == t[1] \in IdentStartChars

\* token j is a bare identifier that directly follows a keyword
FollowsKeyword(toks, j) ==
    /\ j >= 3
    /\ IsIdentifierToken(toks[j])
    /\ IsSpaceToken(toks[j - 1])
    /\ IsKeywordToken(toks[j - 2])

Known(id, known) == \E k \in DOMAIN known : lower(known[k]) = lower(id)

\* the stored-case name of the known table that id names (the last listed
\* one if several differ only in case)
StoredName(id, known) ==
    known[CHOOSE k \in DOMAIN known :
            /\ lower(known[k]) = lower(id)
            /\ \A m \in DOMAIN known : lower(known[m]) = lower(id) => m <= k]

\* what the identifier following a keyword becomes: the stored name, quoted
\* when it needs quoting, for a known table; for any other identifier either
\* the identifier quoted when it needs quoting, or the identifier as written
Rewritten(id, known, quoteUnknown) ==
    IF Known(id, known) THEN _quote_identifier(StoredName(id, known))
    ELSE IF quoteUnknown THEN _quote_identifier(id)
    ELSE id

\* the tokens rewritten from left to right: a keyword, whitespace and an
\* identifier are taken together, so a keyword taken as the identifier of the
\* keyword before it does not introduce an identifier of its own
RECURSIVE ScanRewrite(_, _, _, _)
ScanRewrite(toks, j, known, quoteUnknown) ==
    IF j > Len(toks) THEN <<>>
    ELSE IF j + 2 <= Len(toks) /\ IsKeywordToken(toks[j]) /\ FollowsKeyword(toks, j + 2)
         THEN toks[j] \o <<" ">> \o Rewritten(toks[j + 2], known, quoteUnknown)
                  \o ScanRewrite(toks, j + 3, known, quoteUnknown)
         ELSE toks[j] \o ScanRewrite(toks, j + 1, known, quoteUnknown)

\* every identifier that follows a keyword names a known table
OnlyKnownTables(toks, known) ==
    \A j \in DOMAIN toks : FollowsKeyword(toks, j) => Known(toks[j], known)

\* the tokens rewritten wherever an identifier follows a keyword
EveryRewrite(toks, known) ==
    Concat([j \in DOMAIN toks |->
              IF FollowsKeyword(toks, j) THEN Rewritten(toks[j], known, TRUE)
              ELSE IF /\ IsSpaceToken(toks[j])
                      /\ j + 1 <= Len(toks)
                      /\ FollowsKeyword(toks, j + 1)
                   THEN <<" ">>
                   ELSE toks[j]])

\* C8, as amended: scanning from the left, each bare identifier that directly
\* follows one of the keywords, unless that keyword was itself taken as the
\* identifier of the keyword before it, and that names a known table
\* case-insensitively becomes that table's stored name, quoted when it needs
\* quoting; the keyword is kept as written and the rest of the text is kept.
C8_KnownTablesRewritten ==
    sql_out # <<>> =>
        sql_out[1] = ScanRewrite(Tokenize(sql_in), 1, table_names_in, TRUE)

\* FROM x with the table stored as X becomes FROM "X"
C8_Witness ==
    /\ sql_out # <<>>
    /\ sql_in = <<"F", "R", "O", "M", " ", "x">>
    /\ table_names_in = <<<<"X">>>>
    /\ sql_out[1] = <<"F", "R", "O", "M", " ", "\"", "X", "\"">>

\* C8, as stated: every bare identifier that directly follows one of the
\* keywords and names a known table becomes the stored name, quoted when it
\* needs quoting (stated for the texts in which these are the only
\* identifiers after keywords).
C8_EveryIdentifierRewritten ==
    (sql_out # <<>> /\ OnlyKnownTables(Tokenize(sql_in), table_names_in)) =>
        sql_out[1] = EveryRewrite(Tokenize(sql_in), table_names_in)

\* C9: an identifier after a keyword that names no known table is left as
\* written, neither re-cased nor quoted.
C9_UnknownLeftAsIs ==
    sql_out # <<>> =>
        sql_out[1] = ScanRewrite(Tokenize(sql_in), 1, table_names_in, FALSE)

----------------------------------------------------------------------------
(* Confidence values, the order of completion calls, and the reach of
   process_query *)

\* a confidence between 0.0 and 1.0 (values are kept in hundredths)
InUnitInterval(confidence) ==
    ~confidence.nan /\ 0 <= confidence.v /\ confidence.v <= 100

\* C11: every confidence that evaluate_query_confidence returns for a chunk,
\* and the highest confidence kept by the selection, lies between 0.0 and
\* 1.0, whatever text the completion service answers.
C11_ConfidenceInUnitInterval ==
    /\ \A j \in 1..Len(calls) :
         calls[j].kind = "scoring" /\ calls[j].content # Raised
             => InUnitInterval(calls[j].returned)
    /\ InUnitInterval(highest_confidence)

\* the number of chunks of the validated list, and the call expected at
\* position j of a run over several chunks
NumChunks == (Len(validated_tables) + tables_per_chunk - 1) \div tables_per_chunk

ExpectedKind(j) ==
    IF j = 1 THEN "relevance" ELSE IF j % 2 = 0 THEN "generation" ELSE "scoring"

ExpectedTables(j) ==
    IF j = 1 THEN table_names_of(relevant_tables)
    ELSE table_names_of(Chunk(validated_tables, ((j \div 2) - 1) * tables_per_chunk))

\* C14: in a generate_sql call over k > 1 chunks the completion calls are, in
\* order, one relevance call and then for each chunk in index order its
\* generation call followed by its scoring call; a chunk's generation is
\* reached only when every earlier chunk has been scored, a run that returns
\* has made exactly 1 + 2k calls, and a call that fails is the last call of
\* the request (no retry, no further call).
C14_SequentialCalls ==
    /\ \A j \in 1..Len(calls) :
         calls[j].content = Raised => j = Len(calls) /\ pc \in {"done", "shown"}
    /\ Len(validated_tables) > tables_per_chunk =>
         /\ Len(calls) <= 1 + 2 * NumChunks
         /\ \A j \in 1..Len(calls) :
              /\ calls[j].kind = ExpectedKind(j)
              /\ calls[j].tables = ExpectedTables(j)
         /\ pc = "generate" => Len(calls) = 1 + 2 * (i \div tables_per_chunk)
         /\ pc = "score" => Len(calls) = 2 + 2 * (i \div tables_per_chunk)
         /\ pc = "returned" => Len(calls) = 1 + 2 * NumChunks

C14_Witness ==
    /\ pc = "returned"
    /\ NumChunks = 3
    /\ Len(calls) = 7
    /\ calls[6].kind = "generation" /\ calls[7].kind = "scoring"
    /\ calls[7].tables = table_names_of(Chunk(validated_tables, 10))

\* C15: a request that enters through process_query has at most 3 candidate
\* tables and at most tables_per_chunk = 5 validated tables, never reaches
\* the loop over chunks and never calls evaluate_query_confidence.
C15_ProcessQuerySingleChunk ==
    entry = "process_query" =>
        /\ tables_per_chunk = 5
        /\ Len(relevant_tables) <= 3
        /\ Len(validated_tables) <= 5
        /\ pc \notin {"generate", "score"}
        /\ CallsOf("scoring") = <<>>

C15_Witness ==
    /\ entry = "process_query"
    /\ pc = "returned"
    /\ Len(relevant_tables) = 3
    /\ Len(validated_tables) = 3
    /\ Len(calls) = 2
    /\ calls[2].kind = "generation"
    /\ Truthy(sql_query)

----------------------------------------------------------------------------
(* _needs_quoting and _quote_identifier, under SpecQuote *)

HasUppercase(identifier) == \E c \in Range(identifier) : c \in DOMAIN ToLowerMap
HasLowercase(identifier) == \E c \in Range(identifier) : c \in DOMAIN ToUpperMap
Reserved(identifier) == lower(identifier) \in pg_keywords
SingleWord(identifier) == Range(identifier) \cap {" ", ".", "-"} = {}

\* a bare identifier: [a-zA-Z_][a-zA-Z0-9_]*
BareIdentifier(identifier) ==
    /\ identifier # <<>>
    /\ identifier[1] \in IdentStartChars
    /\ Range(identifier) \subseteq WordChars

Wrapped(identifier) == <<"\"">> \o identifier \o <<"\"">>

\* _quote_identifier wraps exactly when _needs_quoting is true
QuotesWhenNeeded ==
    quote_out[1].quoted = IF quote_out[1].needs THEN Wrapped(identifier_in)
                          ELSE identifier_in

\* C12: _needs_quoting is true for every identifier that has an uppercase
\* letter or is, in any case, a reserved word; it is false for every
\* non-reserved identifier without space, '.' or '-' that has at least one
\* lowercase letter and no uppercase letter; _quote_identifier wraps the
\* identifier in double quotes exactly when _needs_quoting is true and
\* returns it unchanged otherwise.
C12_QuotingByCase ==
    quote_out # <<>> =>
        /\ HasUppercase(identifier_in) \/ Reserved(identifier_in) => quote_out[1].needs
        /\ /\ HasLowercase(identifier_in)
           /\ ~HasUppercase(identifier_in)
           /\ ~Reserved(identifier_in)
           /\ SingleWord(identifier_in)
           => ~quote_out[1].needs
        /\ QuotesWhenNeeded

C12_Witness ==
    /\ identifier_in = <<"a", "_", "1">>
    /\ quote_out = <<[needs |-> FALSE, quoted |-> <<"a", "_", "1">>]>>

\* C12 as the specification words it: false for every bare identifier that
\* has no uppercase letter and is not reserved, an identifier without any
\* letter included.
C12_LowercaseNeverQuoted ==
    quote_out # <<>> =>
        /\ HasUppercase(identifier_in) \/ Reserved(identifier_in) => quote_out[1].needs
        /\ /\ BareIdentifier(identifier_in)
           /\ lower(identifier_in) = identifier_in
           /\ ~Reserved(identifier_in)
           => ~quote_out[1].needs
        /\ QuotesWhenNeeded

----------------------------------------------------------------------------
(* _process_sql_query applied twice, under SpecNormalize *)

\* C13: applying _process_sql_query to its own result, with the same table
\* names, changes nothing, also when the identifier after a keyword is itself
\* one of the keywords or a reserved word.
C13_NormalizeIdempotent ==
    Len(sql_out) = 2 => sql_out[2] = sql_out[1]

C13_Witness ==
    /\ sql_in = <<"f", "r", "o", "m", "\n", "u", "p", "d", "a", "t", "e", " ", "x">>
    /\ table_names_in = <<<<"U", "p", "d", "a", "t", "e">>, <<"X">>>>
    /\ Len(sql_out) = 2
    /\ sql_out[1] = <<"f", "r", "o", "m", " ", "\"", "U", "p", "d", "a", "t", "e", "\"", " ", "x">>
    /\ sql_out[2] = sql_out[1]

====
